---- MODULE Spec2Model ----
(***************************************************************************)
(* A model of crates/uv/src/requirements.rs: reading requirement sources,  *)
(* merging them into one RequirementsSpecification (from_sources),         *)
(* flattening self-referential extras (flatten_extra), naming unnamed      *)
(* requirements (name_requirement), loading lockfile preferences          *)
(* (read_lockfile) and converting a specification into NamedRequirements   *)
(* (from_spec).                                                            *)
(*                                                                         *)
(* Option<T> is modelled as a sequence of length at most one: <<>> is None *)
(* and <<x>> is Some(x).  Vec<T> is a sequence, FxHashSet<T> a set.        *)
(***************************************************************************)
EXTENDS Integers, Sequences, FiniteSets, TLC

VARIABLES
    \* from_sources
    requirements,   \* the `requirements` argument: a list of sources (catalog positions)
    constraints,    \* the `constraints` argument
    overrides,      \* the `overrides` argument
    extras,         \* the `extras` argument: an ExtrasSpecification
    spec,           \* the local `spec` being built
    processed,      \* how many sources (over the three loops) have been read
    result,         \* what from_sources returned, once it has
    \* flatten_extra
    table,          \* the `extras` argument: the optional-dependencies table
    stack,          \* the active calls of `inner`, the innermost last
    seen,           \* the `seen` set shared by the calls
    expanded,       \* the groups whose requirement list a call has traversed, in call order
    flattened,      \* what flatten_extra returned, once it has
    \* name_requirement
    unnamedRequirement, \* the `requirement` argument: what its URL and the file system hold
    strategy,       \* the strategy name_requirement is about to try
    tried,          \* the strategies tried so far, in order
    accesses,       \* the file system accesses made so far, in order
    named,          \* what name_requirement returned, once it has
    \* read_lockfile
    output_file,    \* the `output_file` argument, with what the file system holds there
    upgrade,        \* the `upgrade` argument
    lockStep,       \* the statement read_lockfile is about to run
    entries,        \* the local `requirements_txt.requirements`, then `preferences`
    io,             \* the file system accesses made so far, in order
    preferences,    \* what read_lockfile returned, once it has
    \* NamedRequirements::from_spec
    specification,  \* the `spec` argument
    converted,      \* how many of its requirements the `map` has taken
    collected,      \* the requirements collected so far
    namedRequirements \* what from_spec returned, once it has

mergeVars == <<requirements, constraints, overrides, extras, spec, processed, result>>

flattenVars == <<table, stack, seen, expanded, flattened>>

nameVars == <<unnamedRequirement, strategy, tried, accesses, named>>

lockVars == <<output_file, upgrade, lockStep, entries, io, preferences>>

convertVars == <<specification, converted, collected, namedRequirements>>

vars == <<mergeVars, flattenVars, nameVars, lockVars, convertVars>>

(***************************************************************************)
(* Bounds of the model.                                                    *)
(***************************************************************************)
\* The total number of sources handed to from_sources, over the three lists.
MaxSources == 2

\* The total number of requirements in an optional-dependencies table.
MaxTableRequirements == 3

\* The number of entries of a lock output.
MaxLockEntries == 3

\* The number of requirements of a specification handed to from_spec.
MaxSpecRequirements == 3

(***************************************************************************)
(* Generic helpers.                                                        *)
(***************************************************************************)
None == <<>>

Some(x) == <<x>>

IsSome(o) == Len(o) = 1

Unwrap(o) == o[1]

Range(s) == {s[i] : i \in 1..Len(s)}

\* All sequences over S of length at most n.
SeqsUpTo(S, n) == UNION {[1..k -> S] : k \in 0..n}

(***************************************************************************)
(* Requirements.                                                           *)
(***************************************************************************)
\* pep508_rs::Requirement: a name and the extras it asks for (the version and
\* marker play no part in this file's logic).
Requirement(name, extraNames) == [name |-> name, extras |-> extraNames]

\* RequirementsTxtRequirement::Pep508
Pep508(requirement) == [kind |-> "Pep508", requirement |-> requirement, url |-> ""]

\* RequirementsTxtRequirement::Unnamed
Unnamed(url) == [kind |-> "Unnamed", requirement |-> Requirement("", <<>>), url |-> url]

(***************************************************************************)
(* Names.  PackageName::new and ExtraName::from_str validate and normalise *)
(* a raw string; both live in the uv-normalize crate.                      *)
(***************************************************************************)
\* The raw strings the model's manifests use, with their normalised form
\* ("" when the string is not a valid name).
NormalizedNames ==
    [x \in {"p1", "p2", "p!", "dev", "Dev", "test", "e?",
             "cfg-name", "py-name", "not a name"} |->
        CASE x = "Dev" -> "dev"
          [] x \in {"p!", "e?", "not a name"} -> ""
          [] OTHER -> x]

\* PackageName::new(raw): Some(normalised name), or None for an invalid name.
PackageNameNew(raw) ==
    IF NormalizedNames[raw] = "" THEN None ELSE Some(NormalizedNames[raw])

\* PackageName::from_str(raw): the same validation.
PackageNameFromStr(raw) == PackageNameNew(raw)

\* ExtraName::from_str(raw): Some(normalised name), or None for an invalid name.
ExtraNameFromStr(raw) ==
    IF NormalizedNames[raw] = "" THEN None ELSE Some(NormalizedNames[raw])

(***************************************************************************)
(* ExtrasSpecification.                                                    *)
(***************************************************************************)
ExtrasNone == [kind |-> "None", names |-> {}]

ExtrasAll == [kind |-> "All", names |-> {}]

ExtrasSome(names) == [kind |-> "Some", names |-> names]

\* ExtrasSpecification::contains
ExtrasContains(e, name) ==
    CASE e.kind = "All" -> TRUE
      [] e.kind = "None" -> FALSE
      [] OTHER -> name \in e.names

(***************************************************************************)
(* flatten_extra, as a function.  `extras` is the optional-dependencies    *)
(* table, an IndexMap kept as a sequence of [name, requirements] entries   *)
(* in the manifest's order.  The state threaded through the loops is       *)
(* [ok, flattened, seen]; ok = FALSE is the early return of a `?`.         *)
(***************************************************************************)
\* FxHashSet::insert: the set afterwards, and whether the value was new.
SeenInsertSkipsCheck(set, extra) == [inserted |-> TRUE, seen |-> set \cup {extra}]

SeenInsert(set, extra) == [inserted |-> extra \notin set, seen |-> set \cup {extra}]

RECURSIVE InnerRequirements(_, _, _, _, _)
RECURSIVE InnerExtras(_, _, _, _, _)
RECURSIVE InnerTable(_, _, _, _, _)

\* `for (name, extra_requirements) in extras`, from entry k on.
InnerTable(project_name, extra, groups, k, st) ==
    IF ~st.ok \/ k > Len(groups) THEN st
    ELSE LET normalized_name == ExtraNameFromStr(groups[k].name) IN
         IF ~IsSome(normalized_name) THEN [st EXCEPT !.ok = FALSE]
         ELSE IF Unwrap(normalized_name) = extra
         THEN LET sub == InnerRequirements(project_name, groups[k].requirements, groups, 1,
                             [ok |-> TRUE, flattened |-> <<>>, seen |-> st.seen])
              IN  InnerTable(project_name, extra, groups, k + 1,
                      [ok |-> sub.ok,
                       flattened |-> st.flattened \o sub.flattened,
                       seen |-> sub.seen])
         ELSE InnerTable(project_name, extra, groups, k + 1, st)

\* `for extra in &requirement.extras`, from extra j on.
InnerExtras(project_name, extraNames, groups, j, st) ==
    IF ~st.ok \/ j > Len(extraNames) THEN st
    ELSE LET ins == SeenInsert(st.seen, extraNames[j]) IN
         IF ~ins.inserted
         THEN InnerExtras(project_name, extraNames, groups, j + 1, st)
         ELSE InnerExtras(project_name, extraNames, groups, j + 1,
                  InnerTable(project_name, extraNames[j], groups, 1,
                      [st EXCEPT !.seen = ins.seen]))

\* `for requirement in requirements`, from requirement i on.
InnerRequirements(project_name, reqs, groups, i, st) ==
    IF ~st.ok \/ i > Len(reqs) THEN st
    ELSE IF reqs[i].name = project_name
         THEN InnerRequirements(project_name, reqs, groups, i + 1,
                  InnerExtras(project_name, reqs[i].extras, groups, 1, st))
         ELSE InnerRequirements(project_name, reqs, groups, i + 1,
                  [st EXCEPT !.flattened = Append(@, reqs[i])])

\* flatten_extra(project_name, requirements, extras): [ok, flattened, seen].
FlattenExtra(project_name, reqs, groups) ==
    InnerRequirements(project_name, reqs, groups, 1,
        [ok |-> TRUE, flattened |-> <<>>, seen |-> {}])

(***************************************************************************)
(* RequirementsSpecification and errors.                                   *)
(***************************************************************************)
\* RequirementsSpecification::default()
DefaultSpec ==
    [project |-> None, requirements |-> <<>>, constraints |-> <<>>,
     overrides |-> <<>>, editables |-> <<>>, extras |-> {},
     index_url |-> None, extra_index_urls |-> <<>>, no_index |-> FALSE,
     find_links |-> <<>>]

\* An anyhow error: what kind it is and the two values its message cites.
Error(kind, a, b) == [kind |-> kind, a |-> a, b |-> b]

NoError == Error("", "", "")

\* "Multiple index URLs specified: `{existing}` vs.` {url}"
MultipleIndexUrls(existing, url) == Error("MultipleIndexUrls", existing, url)

\* "Unnamed requirements are not allowed as constraints (found: `{requirement}`)"
UnnamedConstraint(url) == Error("UnnamedNotAllowed", "constraints", url)

\* "Unnamed requirements are not allowed as overrides (found: `{requirement}`)"
UnnamedOverride(url) == Error("UnnamedNotAllowed", "overrides", url)

\* An error of reading one source, passed on by `?`.
SourceError(kind) == Error("Source", kind, "")

\* Result<RequirementsSpecification>
Ok(s) == [tag |-> "Ok", spec |-> s, err |-> NoError]

Err(e) == [tag |-> "Err", spec |-> DefaultSpec, err |-> e]

\* from_sources has not returned yet.
Pending == [tag |-> "Pending", spec |-> DefaultSpec, err |-> NoError]

(***************************************************************************)
(* Sources.  A RequirementsSource is modelled with what the external       *)
(* parser or reader makes of it: `parsed` is None when that fails.         *)
(***************************************************************************)
\* RequirementsSource::Package
PackageSource(parsed) == [kind |-> "Package", parsed |-> parsed]

\* RequirementsSource::Editable
EditableSource(parsed) == [kind |-> "Editable", parsed |-> parsed]

\* RequirementsSource::RequirementsTxt
RequirementsTxtSource(parsed) == [kind |-> "RequirementsTxt", parsed |-> parsed]

\* RequirementsSource::PyprojectToml
PyprojectTomlSource(parsed) == [kind |-> "PyprojectToml", parsed |-> parsed]

\* What RequirementsTxt::parse returns.
RequirementsTxt(reqs, cons, eds, url, extraUrls, noIndex, links) ==
    [requirements |-> reqs, constraints |-> cons, editables |-> eds,
     index_url |-> url, extra_index_urls |-> extraUrls, no_index |-> noIndex,
     find_links |-> links]

\* One entry of the optional-dependencies groups.
ExtraGroup(name, reqs) == [name |-> name, requirements |-> reqs]

\* pyproject_toml::PyProjectToml: the project groups (None when absent) with
\* its name, dependencies and optional dependencies (None when absent).
PyProjectToml(project) == [project |-> project]

Project(name, dependencies, optional_dependencies) ==
    [name |-> name, dependencies |-> dependencies,
     optional_dependencies |-> optional_dependencies]

(***************************************************************************)
(* from_source.                                                            *)
(***************************************************************************)
RECURSIVE ReadOptionalDependencies(_, _, _, _, _)

\* `for (extra_name, optional_requirements) in &optional_dependencies`, from
\* entry k on; st is [ok, requirements, used_extras].
ReadOptionalDependencies(parsed_project_name, groups, e, k, st) ==
    IF ~st.ok \/ k > Len(groups) THEN st
    ELSE LET normalized_name == ExtraNameFromStr(groups[k].name) IN
         IF ~IsSome(normalized_name) THEN [st EXCEPT !.ok = FALSE]
         ELSE IF ExtrasContains(e, Unwrap(normalized_name))
         THEN LET flat == FlattenExtra(parsed_project_name, groups[k].requirements, groups)
              IN  ReadOptionalDependencies(parsed_project_name, groups, e, k + 1,
                      [ok |-> flat.ok,
                       requirements |-> st.requirements \o flat.flattened,
                       used_extras |-> st.used_extras \cup {Unwrap(normalized_name)}])
         ELSE ReadOptionalDependencies(parsed_project_name, groups, e, k + 1, st)

\* The RequirementsSource::PyprojectToml arm.
FromPyprojectToml(pyproject_toml, e) ==
    IF ~IsSome(pyproject_toml.project)
    THEN Ok(DefaultSpec)
    ELSE LET project == Unwrap(pyproject_toml.project)
             parsed_project_name == PackageNameNew(project.name)
             dependencies ==
                 IF IsSome(project.dependencies) THEN Unwrap(project.dependencies) ELSE <<>>
             start == [ok |-> TRUE, requirements |-> dependencies, used_extras |-> {}]
             read ==
                 IF e.kind # "None" /\ IsSome(project.optional_dependencies)
                 THEN ReadOptionalDependencies(Unwrap(parsed_project_name),
                          Unwrap(project.optional_dependencies), e, 1, start)
                 ELSE start
         IN  IF ~IsSome(parsed_project_name) THEN Err(SourceError("PyprojectToml"))
             ELSE IF ~read.ok THEN Err(SourceError("PyprojectToml"))
             ELSE Ok([DefaultSpec EXCEPT
                         !.project = parsed_project_name,
                         !.requirements = [i \in 1..Len(read.requirements) |->
                                              Pep508(read.requirements[i])],
                         !.extras = read.used_extras])

\* RequirementsSpecification::from_source
FromSource(source, e) ==
    IF ~IsSome(source.parsed) THEN Err(SourceError(source.kind))
    ELSE LET parsed == Unwrap(source.parsed) IN
         CASE source.kind = "Package" ->
                Ok([DefaultSpec EXCEPT !.requirements = <<parsed>>])
           [] source.kind = "Editable" ->
                Ok([DefaultSpec EXCEPT !.editables = <<parsed>>])
           [] source.kind = "RequirementsTxt" ->
                Ok([DefaultSpec EXCEPT
                       !.requirements = parsed.requirements,
                       !.constraints = parsed.constraints,
                       !.editables = parsed.editables,
                       !.index_url = parsed.index_url,
                       !.extra_index_urls = parsed.extra_index_urls,
                       !.no_index = parsed.no_index,
                       !.find_links = parsed.find_links])
           [] OTHER -> FromPyprojectToml(parsed, e)

(***************************************************************************)
(* Results of the other operations, and the state of an operation that is  *)
(* not running: each specification runs one operation and leaves the       *)
(* variables of the others as they are here.                               *)
(***************************************************************************)
\* Result<Vec<Requirement>> of flatten_extra
FlattenPending == [tag |-> "Pending", requirements |-> <<>>]

FlattenOk(reqs) == [tag |-> "Ok", requirements |-> reqs]

FlattenErr == [tag |-> "Err", requirements |-> <<>>]

\* Result<Requirement> of name_requirement: the name given, or the error
\* and the requirement its message cites.
NamePending == [tag |-> "Pending", name |-> "", err |-> "", cites |-> ""]

NameOk(name) == [tag |-> "Ok", name |-> name, err |-> "", cites |-> ""]

NameErr(err, cites) == [tag |-> "Err", name |-> "", err |-> err, cites |-> cites]

\* Result<Vec<Preference>> of read_lockfile
LockPending == [tag |-> "Pending", preferences |-> <<>>, err |-> ""]

LockOk(prefs) == [tag |-> "Ok", preferences |-> prefs, err |-> ""]

LockErr(err) == [tag |-> "Err", preferences |-> <<>>, err |-> err]

MergeIdle ==
    /\ requirements = <<>>
    /\ constraints = <<>>
    /\ overrides = <<>>
    /\ extras = ExtrasNone
    /\ spec = DefaultSpec
    /\ processed = 0
    /\ result = Pending

FlattenIdle ==
    /\ table = <<>>
    /\ stack = <<>>
    /\ seen = {}
    /\ expanded = <<>>
    /\ flattened = FlattenPending

NameIdle ==
    /\ unnamedRequirement = <<>>
    /\ strategy = ""
    /\ tried = <<>>
    /\ accesses = <<>>
    /\ named = NamePending

LockIdle ==
    /\ output_file = None
    /\ upgrade = [kind |-> "None", packages |-> {}]
    /\ lockStep = ""
    /\ entries = <<>>
    /\ io = <<>>
    /\ preferences = LockPending

\* NamedRequirements: the fields of the specification but `extras`.
NamedRequirements(sp, reqs) ==
    [project |-> sp.project, requirements |-> reqs, constraints |-> sp.constraints,
     overrides |-> sp.overrides, editables |-> sp.editables,
     index_url |-> sp.index_url, extra_index_urls |-> sp.extra_index_urls,
     no_index |-> sp.no_index, find_links |-> sp.find_links]

\* Result<NamedRequirements> of from_spec
ConvertPending == [tag |-> "Pending", value |-> <<>>, err |-> "", cites |-> ""]

ConvertOk(value) == [tag |-> "Ok", value |-> <<value>>, err |-> "", cites |-> ""]

ConvertErr(err, cites) == [tag |-> "Err", value |-> <<>>, err |-> err, cites |-> cites]

ConvertIdle ==
    /\ specification = DefaultSpec
    /\ converted = 0
    /\ collected = <<>>
    /\ namedRequirements = ConvertPending

(***************************************************************************)
(* The sources the model draws from.  A source list holds positions in     *)
(* SourceCatalog (a source is a name on the command line; the catalog is   *)
(* what the parsers and the file system make of each name).                *)
(***************************************************************************)
IndexUrls == <<None, Some("https://a.example/simple"), Some("https://b.example/simple")>>

UnnamedUrl == "file:///work/pkg"

PackageSources ==
    << PackageSource(Some(Pep508(Requirement("flask", <<>>)))),
       PackageSource(Some(Unnamed(UnnamedUrl))),
       PackageSource(None) >>

EditableSources == << EditableSource(Some("../flask")) >>

\* requirements.txt files that only list requirements and may set --index-url:
\* every pairing of the three requirement lists with the three index URLs.
PlainRequirements ==
    << <<>>, <<Pep508(Requirement("anyio", <<>>))>>, <<Unnamed(UnnamedUrl)>> >>

PlainRequirementsTxt ==
    [i \in 1..(Len(PlainRequirements) * Len(IndexUrls)) |->
        RequirementsTxtSource(Some(RequirementsTxt(
            PlainRequirements[((i - 1) \div Len(IndexUrls)) + 1], <<>>, <<>>,
            IndexUrls[((i - 1) % Len(IndexUrls)) + 1], <<>>, FALSE, <<>>)))]

\* requirements.txt files that use the other directives too, and one that
\* cannot be read.
RichRequirementsTxt ==
    << RequirementsTxtSource(Some(RequirementsTxt(
           <<Pep508(Requirement("anyio", <<>>)), Unnamed(UnnamedUrl)>>,
           <<>>, <<>>, None, <<>>, FALSE, <<>>))),
       RequirementsTxtSource(Some(RequirementsTxt(
           <<Pep508(Requirement("numpy", <<>>))>>,
           <<Requirement("idna", <<>>)>>, <<"./editable1">>, None,
           <<"https://x1.example/simple">>, TRUE, <<"./links1">>))),
       RequirementsTxtSource(Some(RequirementsTxt(
           <<Pep508(Requirement("scipy", <<>>))>>,
           <<Requirement("sniffio", <<>>)>>, <<"./editable2">>, None,
           <<"https://x2.example/simple", "https://x1.example/simple">>, FALSE,
           <<"./links2">>))),
       RequirementsTxtSource(None) >>

\* pyproject.toml files: no project table; a project without optional
\* dependencies; a project whose `Dev` extra refers to the project's own
\* `test` and `dev` extras; a project with an invalid name.
PyprojectTomlSources ==
    << PyprojectTomlSource(Some(PyProjectToml(None))),
       PyprojectTomlSource(Some(PyProjectToml(Some(
           Project("p1", Some(<<Requirement("tomli", <<>>)>>), None))))),
       PyprojectTomlSource(Some(PyProjectToml(Some(
           Project("p2", None, Some(<<
               ExtraGroup("test", <<Requirement("pep517", <<>>)>>),
               ExtraGroup("Dev", <<Requirement("p2", <<"test">>),
                                   Requirement("black", <<>>),
                                   Requirement("p2", <<"dev">>)>>)>>)))))),
       PyprojectTomlSource(Some(PyProjectToml(Some(
           Project("p!", None, None))))) >>

SourceCatalog ==
    PackageSources \o EditableSources \o PlainRequirementsTxt
        \o RichRequirementsTxt \o PyprojectTomlSources

Sources == 1..Len(SourceCatalog)

ExtrasSpecifications == {ExtrasNone, ExtrasAll, ExtrasSome({"dev"})}

(***************************************************************************)
(* from_sources.  One action per loop iteration; `processed` counts the    *)
(* sources read so far over the three loops, which run one after another.  *)
(***************************************************************************)
\* The index options of one source merged into spec (the same code in all
\* three loops): [ok, spec, err].
MergeIndexFirstWins(sp, source) ==
    [ok |-> TRUE,
     spec |-> [sp EXCEPT
                  !.index_url = IF IsSome(sp.index_url) THEN @ ELSE source.index_url,
                  !.no_index = @ \/ source.no_index,
                  !.extra_index_urls = @ \o source.extra_index_urls,
                  !.find_links = @ \o source.find_links],
     err |-> NoError]

MergeIndexUrlOnly(sp, source) ==
    IF IsSome(source.index_url) /\ IsSome(sp.index_url)
    THEN [ok |-> FALSE, spec |-> sp,
          err |-> MultipleIndexUrls(Unwrap(sp.index_url), Unwrap(source.index_url))]
    ELSE [ok |-> TRUE,
          spec |-> [sp EXCEPT
                       !.index_url = IF IsSome(source.index_url)
                                     THEN source.index_url ELSE @],
          err |-> NoError]

MergeIndex(sp, source) ==
    IF IsSome(source.index_url) /\ IsSome(sp.index_url)
    THEN [ok |-> FALSE, spec |-> sp,
          err |-> MultipleIndexUrls(Unwrap(sp.index_url), Unwrap(source.index_url))]
    ELSE [ok |-> TRUE,
          spec |-> [sp EXCEPT
                       !.index_url = IF IsSome(source.index_url)
                                     THEN source.index_url ELSE @,
                       !.no_index = @ \/ source.no_index,
                       !.extra_index_urls = @ \o source.extra_index_urls,
                       !.find_links = @ \o source.find_links],
          err |-> NoError]

\* "Use the first project name discovered."
MergeProjectLastWins(sp, source) ==
    IF IsSome(source.project) THEN source.project ELSE sp.project

MergeProject(sp, source) ==
    IF ~IsSome(sp.project) THEN source.project ELSE sp.project

\* `for requirement in source.requirements { match requirement ... }` of the
\* constraints and overrides loops: the named requirements up to the first
\* unnamed one, and that unnamed one's position (0 when there is none).
FirstUnnamedIgnored(reqs) == 0

FirstUnnamed(reqs) ==
    IF \E i \in 1..Len(reqs) : reqs[i].kind = "Unnamed"
    THEN CHOOSE i \in 1..Len(reqs) :
            /\ reqs[i].kind = "Unnamed"
            /\ \A j \in 1..(i - 1) : reqs[j].kind # "Unnamed"
    ELSE 0

NamedOfNone(reqs) == <<>>

NamedOf(reqs) == [i \in 1..Len(reqs) |-> reqs[i].requirement]

\* The arguments: at most MaxSources sources, split over the three lists.
MergeInit ==
    /\ \E n \in 0..MaxSources : \E l \in [1..n -> Sources] :
          \E i \in 0..n : \E j \in i..n :
             /\ requirements = SubSeq(l, 1, i)
             /\ constraints = SubSeq(l, i + 1, j)
             /\ overrides = SubSeq(l, j + 1, n)
    /\ extras \in ExtrasSpecifications
    /\ spec = DefaultSpec
    /\ processed = 0
    /\ result = Pending
    /\ FlattenIdle /\ NameIdle /\ LockIdle /\ ConvertIdle

\* One iteration of `for source in requirements`.
ReadRequirementsSource ==
    /\ result = Pending
    /\ processed < Len(requirements)
    /\ LET read == FromSource(SourceCatalog[requirements[processed + 1]], extras)
           source == read.spec
           extended == [spec EXCEPT
                           !.requirements = @ \o source.requirements,
                           !.constraints = @ \o source.constraints,
                           !.overrides = @ \o source.overrides,
                           !.extras = @ \cup source.extras,
                           !.editables = @ \o source.editables,
                           !.project = MergeProject(spec, source)]
           merged == MergeIndex(extended, source)
       IN  IF read.tag = "Err"
           THEN /\ result' = Err(read.err)
                /\ UNCHANGED <<spec, processed>>
           ELSE IF ~merged.ok
           THEN /\ result' = Err(merged.err)
                /\ UNCHANGED <<spec, processed>>
           ELSE /\ spec' = merged.spec
                /\ processed' = processed + 1
                /\ UNCHANGED result
    /\ UNCHANGED <<requirements, constraints, overrides, extras>>
    /\ UNCHANGED <<flattenVars, nameVars, lockVars, convertVars>>

ReadConstraintsSourceAsRequirements ==
    /\ result = Pending
    /\ processed >= Len(requirements)
    /\ processed < Len(requirements) + Len(constraints)
    /\ LET read == FromSource(SourceCatalog[constraints[processed - Len(requirements) + 1]], extras)
           source == read.spec
           unnamed == FirstUnnamed(source.requirements)
           extended == [spec EXCEPT
                           !.constraints = @ \o NamedOf(source.requirements)
                                             \o source.constraints \o source.overrides,
                           !.extras = @ \cup source.extras,
                           !.editables = @ \o source.editables,
                           !.project = MergeProject(spec, source)]
           merged == MergeIndex(extended, source)
       IN  IF read.tag = "Err"
           THEN /\ result' = Err(read.err)
                /\ UNCHANGED <<spec, processed>>
           ELSE IF unnamed # 0
           THEN /\ result' = Err(UnnamedConstraint(source.requirements[unnamed].url))
                /\ UNCHANGED <<spec, processed>>
           ELSE IF ~merged.ok
           THEN /\ result' = Err(merged.err)
                /\ UNCHANGED <<spec, processed>>
           ELSE /\ spec' = merged.spec
                /\ processed' = processed + 1
                /\ UNCHANGED result
    /\ UNCHANGED <<requirements, constraints, overrides, extras>>
    /\ UNCHANGED <<flattenVars, nameVars, lockVars, convertVars>>

\* One iteration of `for source in constraints`.
ReadConstraintsSource ==
    /\ result = Pending
    /\ processed >= Len(requirements)
    /\ processed < Len(requirements) + Len(constraints)
    /\ LET read == FromSource(SourceCatalog[constraints[processed - Len(requirements) + 1]], extras)
           source == read.spec
           unnamed == FirstUnnamed(source.requirements)
           extended == [spec EXCEPT
                           !.constraints = @ \o NamedOf(source.requirements)
                                             \o source.constraints \o source.overrides]
           merged == MergeIndex(extended, source)
       IN  IF read.tag = "Err"
           THEN /\ result' = Err(read.err)
                /\ UNCHANGED <<spec, processed>>
           ELSE IF unnamed # 0
           THEN /\ result' = Err(UnnamedConstraint(source.requirements[unnamed].url))
                /\ UNCHANGED <<spec, processed>>
           ELSE IF ~merged.ok
           THEN /\ result' = Err(merged.err)
                /\ UNCHANGED <<spec, processed>>
           ELSE /\ spec' = merged.spec
                /\ processed' = processed + 1
                /\ UNCHANGED result
    /\ UNCHANGED <<requirements, constraints, overrides, extras>>
    /\ UNCHANGED <<flattenVars, nameVars, lockVars, convertVars>>

\* One iteration of `for source in overrides`.
ReadOverridesSource ==
    /\ result = Pending
    /\ processed >= Len(requirements) + Len(constraints)
    /\ processed < Len(requirements) + Len(constraints) + Len(overrides)
    /\ LET read == FromSource(
                      SourceCatalog[overrides[processed - Len(requirements)
                                                  - Len(constraints) + 1]],
                      extras)
           source == read.spec
           unnamed == FirstUnnamed(source.requirements)
           extended == [spec EXCEPT
                           !.overrides = @ \o NamedOf(source.requirements)
                                           \o source.constraints \o source.overrides]
           merged == MergeIndex(extended, source)
       IN  IF read.tag = "Err"
           THEN /\ result' = Err(read.err)
                /\ UNCHANGED <<spec, processed>>
           ELSE IF unnamed # 0
           THEN /\ result' = Err(UnnamedOverride(source.requirements[unnamed].url))
                /\ UNCHANGED <<spec, processed>>
           ELSE IF ~merged.ok
           THEN /\ result' = Err(merged.err)
                /\ UNCHANGED <<spec, processed>>
           ELSE /\ spec' = merged.spec
                /\ processed' = processed + 1
                /\ UNCHANGED result
    /\ UNCHANGED <<requirements, constraints, overrides, extras>>
    /\ UNCHANGED <<flattenVars, nameVars, lockVars, convertVars>>

\* `Ok(spec)` after the three loops.
ReturnSpec ==
    /\ result = Pending
    /\ processed = Len(requirements) + Len(constraints) + Len(overrides)
    /\ result' = Ok(spec)
    /\ UNCHANGED <<requirements, constraints, overrides, extras, spec, processed>>
    /\ UNCHANGED <<flattenVars, nameVars, lockVars, convertVars>>

MergeNext ==
    \/ ReadRequirementsSource
    \/ ReadConstraintsSource
    \/ ReadOverridesSource
    \/ ReturnSpec

\* from_sources on its own.
SpecMerge == MergeInit /\ [][MergeNext]_vars

(***************************************************************************)
(* Claims about from_sources.  They are stated over the arguments, in      *)
(* processing order: the requirements list, then constraints, then         *)
(* overrides.                                                              *)
(***************************************************************************)
AllSources == requirements \o constraints \o overrides

Positions == 1..Len(AllSources)

RoleOf(k) ==
    IF k <= Len(requirements) THEN "requirements"
    ELSE IF k <= Len(requirements) + Len(constraints) THEN "constraints"
    ELSE "overrides"

\* The per-source specification of the k-th source.
ReadOf(k) == FromSource(SourceCatalog[AllSources[k]], extras)

\* The --index-url the k-th source carries (None when it carries none): only
\* a requirements.txt can carry one.
CarriedUrl(k) ==
    LET source == SourceCatalog[AllSources[k]] IN
    IF source.kind = "RequirementsTxt" /\ IsSome(source.parsed)
    THEN Unwrap(source.parsed).index_url
    ELSE None

Carries(k) == IsSome(CarriedUrl(k))

\* The k-th source is read in the constraints or overrides role and yields an
\* unnamed requirement.
YieldsUnnamed(k) ==
    /\ RoleOf(k) # "requirements"
    /\ ReadOf(k).tag = "Ok"
    /\ \E r \in Range(ReadOf(k).spec.requirements) : r.kind = "Unnamed"

\* Nothing but an index-URL conflict can stop the merge at or before source k.
NothingElseFailsUpTo(k) ==
    \A m \in 1..k : ReadOf(m).tag = "Ok" /\ ~YieldsUnnamed(m)

\* Two sources, i before j, that carry distinct index URLs.
DistinctUrls(i, j) ==
    i < j /\ Carries(i) /\ Carries(j) /\ CarriedUrl(i) # CarriedUrl(j)

\* i and j are the first two sources that carry an index URL.
FirstTwoCarriers(i, j) ==
    i < j /\ Carries(i) /\ Carries(j) /\ \A m \in 1..(j - 1) : Carries(m) => m = i

\* C1 (as stated): whenever two sources carry distinct primary index URLs,
\* from_sources fails with the "Multiple index URLs specified" error, which
\* cites an earlier and a later one of the distinct URLs.
C1_DistinctUrlsAlwaysConflictError ==
    (result # Pending /\ \E i, j \in Positions : DistinctUrls(i, j)) =>
        /\ result.tag = "Err"
        /\ result.err.kind = "MultipleIndexUrls"
        /\ \E i, j \in Positions :
              /\ DistinctUrls(i, j)
              /\ result.err = MultipleIndexUrls(Unwrap(CarriedUrl(i)), Unwrap(CarriedUrl(j)))

\* C1 (amended): whenever two sources carry distinct primary index URLs,
\* from_sources fails and returns no specification; the failure is the
\* "Multiple index URLs specified" error citing the earlier and the later URL
\* when the two are the first two URL-carrying sources and nothing else fails
\* first: every source up to the later one is read, and no constraints- or
\* overrides-role source up to and including the later one yields an unnamed
\* requirement.
C1_DistinctUrlsFail ==
    result # Pending =>
        \A i, j \in Positions :
            DistinctUrls(i, j) =>
                /\ result.tag = "Err"
                /\ (FirstTwoCarriers(i, j) /\ NothingElseFailsUpTo(j)) =>
                      result = Err(MultipleIndexUrls(Unwrap(CarriedUrl(i)),
                                                     Unwrap(CarriedUrl(j))))

\* C1 witness: the merge of two sources with distinct URLs, one of them not
\* in the requirements role, has failed with the conflict error.
C1_Witness ==
    /\ result.tag = "Err"
    /\ result.err.kind = "MultipleIndexUrls"
    /\ result.err.a # result.err.b
    /\ Len(requirements) = 1
    /\ \E i, j \in Positions : DistinctUrls(i, j)

\* C2 (as stated): when every source that carries a primary index URL carries
\* the same one (and nothing else makes the merge fail), from_sources raises
\* no conflict error: it succeeds with that URL as the primary index URL.
C2_SameUrlNeverConflicts ==
    (/\ result # Pending
     /\ \E i, j \in Positions : i < j /\ Carries(i) /\ Carries(j)
     /\ \A i, j \in Positions : (Carries(i) /\ Carries(j)) => CarriedUrl(i) = CarriedUrl(j)
     /\ NothingElseFailsUpTo(Len(AllSources))) =>
        /\ result.tag = "Ok"
        /\ \A i \in Positions : Carries(i) => result.spec.index_url = CarriedUrl(i)

\* The project name a source declares: only a pyproject.toml with a project
\* table declares one.
DeclaredProject(k) ==
    LET source == SourceCatalog[requirements[k]] IN
    IF source.kind = "PyprojectToml" /\ IsSome(source.parsed)
          /\ IsSome(Unwrap(source.parsed).project)
    THEN PackageNameNew(Unwrap(Unwrap(source.parsed).project).name)
    ELSE None

\* C3: on success the aggregate's project name is the project name of the
\* first requirements-role source that has one, and is absent when none has.
C3_FirstProjectNameWins ==
    result.tag = "Ok" =>
        /\ (\A k \in 1..Len(requirements) : ~IsSome(DeclaredProject(k))) =>
              result.spec.project = None
        /\ \A k \in 1..Len(requirements) :
              (/\ IsSome(DeclaredProject(k))
               /\ \A m \in 1..(k - 1) : ~IsSome(DeclaredProject(m))) =>
                  result.spec.project = DeclaredProject(k)

\* C3 witness: a merge of two requirements-role sources with different
\* project names has succeeded.
C3_Witness ==
    /\ result.tag = "Ok"
    /\ Len(requirements) >= 2
    /\ IsSome(DeclaredProject(1))
    /\ IsSome(DeclaredProject(2))
    /\ DeclaredProject(1) # DeclaredProject(2)

\* The source from_sources stopped at, once it has failed.
StoppedAt == processed + 1

\* C4: when from_sources reads a constraints- or overrides-role source that
\* yields an unnamed requirement, it fails with the "Unnamed requirements are
\* not allowed" error for that role and requirement; no merge with such a
\* source among its arguments succeeds; and every entry of a returned
\* aggregate's constraints and overrides is a named requirement.
C4_UnnamedConstraintOrOverrideFails ==
    /\ (result.tag = "Err" /\ YieldsUnnamed(StoppedAt)) =>
          /\ result.err.kind = "UnnamedNotAllowed"
          /\ result.err.a = RoleOf(StoppedAt)
          /\ result.err.b = UnnamedUrl
    /\ (result # Pending /\ \E k \in Positions : YieldsUnnamed(k)) => result.tag = "Err"
    /\ result.tag = "Ok" =>
          \A r \in Range(result.spec.constraints) \cup Range(result.spec.overrides) :
              r.name # ""

\* C4 witness: an overrides-role source with a named requirement followed by
\* an unnamed one has been rejected.
C4_Witness ==
    /\ result.tag = "Err"
    /\ result.err.kind = "UnnamedNotAllowed"
    /\ RoleOf(StoppedAt) = "overrides"
    /\ Len(ReadOf(StoppedAt).spec.requirements) = 2

(***************************************************************************)
(* flatten_extra, step by step.  Each call of `inner` is a frame: the      *)
(* group whose requirement list it traverses, its position in the three    *)
(* nested loops (requirement i, extra j, table entry k; k = 0 outside the  *)
(* table loop) and its `flattened` vector.  from_source hands flatten_extra*)
(* the requirement list of one entry of the table, so the first frame is a *)
(* group of the table too.                                                 *)
(***************************************************************************)
\* The owning project of the tables the model draws.
FlattenProject == "p2"

\* The requirements a group may hold: two of other packages, and the
\* project itself with one or two extras.
FlattenRequirements ==
    { Requirement("black", <<>>),
      Requirement("pep517", <<>>),
      Requirement(FlattenProject, <<"dev">>),
      Requirement(FlattenProject, <<"test">>),
      Requirement(FlattenProject, <<"dev", "test">>) }

\* The group names of a table, in the manifest's order: `Dev` and `dev`
\* normalise to the same extra, and `e?` is not a valid extra name.
KeyLayouts ==
    { <<"dev">>, <<"dev", "test">>, <<"Dev", "test", "dev">>, <<"dev", "test", "e?">> }

Frame(group) == [group |-> group, i |-> 1, j |-> 1, k |-> 0, flattened |-> <<>>]

\* A table of at most MaxTableRequirements requirements over one of the key
\* layouts, and the call flatten_extra(project, table[group].requirements, table).
FlattenInit ==
    /\ \E keys \in KeyLayouts : \E n \in 0..MaxTableRequirements :
          \E all \in [1..n -> FlattenRequirements] :
             \E cut \in [0..Len(keys) -> 0..n] :
                /\ cut[0] = 0
                /\ cut[Len(keys)] = n
                /\ \A g \in 1..Len(keys) : cut[g - 1] <= cut[g]
                /\ table = [g \in 1..Len(keys) |->
                              ExtraGroup(keys[g], SubSeq(all, cut[g - 1] + 1, cut[g]))]
    /\ \E group \in 1..Len(table) :
          /\ stack = <<Frame(group)>>
          /\ expanded = <<group>>
    /\ seen = {}
    /\ flattened = FlattenPending
    /\ MergeIdle /\ NameIdle /\ LockIdle /\ ConvertIdle

Top == stack[Len(stack)]

RequirementsOf(frame) == table[frame.group].requirements

\* The call on top of the stack is at a requirement of its list.
AtRequirement ==
    /\ flattened = FlattenPending
    /\ stack # <<>>
    /\ Top.i <= Len(RequirementsOf(Top))

CurrentRequirement == RequirementsOf(Top)[Top.i]

SetTop(frame) == [stack EXCEPT ![Len(stack)] = frame]

PushRequirementInFront ==
    /\ AtRequirement
    /\ CurrentRequirement.name # FlattenProject
    /\ stack' = SetTop([Top EXCEPT !.flattened = <<CurrentRequirement>> \o @,
                                   !.i = @ + 1])
    /\ UNCHANGED <<table, seen, expanded, flattened>>
    /\ UNCHANGED <<mergeVars, nameVars, lockVars, convertVars>>

\* `flattened.push(requirement.clone())`: a requirement of another package.
PushRequirement ==
    /\ AtRequirement
    /\ CurrentRequirement.name # FlattenProject
    /\ stack' = SetTop([Top EXCEPT !.flattened = Append(@, CurrentRequirement),
                                   !.i = @ + 1])
    /\ UNCHANGED <<table, seen, expanded, flattened>>
    /\ UNCHANGED <<mergeVars, nameVars, lockVars, convertVars>>

\* `if !seen.insert(extra.clone()) { continue; }`: the next extra of a
\* requirement on the project itself.
InsertExtra ==
    /\ AtRequirement
    /\ CurrentRequirement.name = FlattenProject
    /\ Top.k = 0
    /\ Top.j <= Len(CurrentRequirement.extras)
    /\ LET ins == SeenInsert(seen, CurrentRequirement.extras[Top.j]) IN
          /\ seen' = ins.seen
          /\ stack' = SetTop(IF ins.inserted
                             THEN [Top EXCEPT !.k = 1]
                             ELSE [Top EXCEPT !.j = @ + 1])
    /\ UNCHANGED <<table, expanded, flattened>>
    /\ UNCHANGED <<mergeVars, nameVars, lockVars, convertVars>>

\* The extras of a requirement on the project itself are exhausted.
NextRequirement ==
    /\ AtRequirement
    /\ CurrentRequirement.name = FlattenProject
    /\ Top.k = 0
    /\ Top.j > Len(CurrentRequirement.extras)
    /\ stack' = SetTop([Top EXCEPT !.i = @ + 1, !.j = 1])
    /\ UNCHANGED <<table, seen, expanded, flattened>>
    /\ UNCHANGED <<mergeVars, nameVars, lockVars, convertVars>>

\* The call on top of the stack is at an entry of the table.
AtTableEntry ==
    /\ AtRequirement
    /\ Top.k >= 1
    /\ Top.k <= Len(table)

\* `ExtraName::from_str(name)?` fails: every call returns the error.
InvalidExtraName ==
    /\ AtTableEntry
    /\ ~IsSome(ExtraNameFromStr(table[Top.k].name))
    /\ flattened' = FlattenErr
    /\ stack' = <<>>
    /\ UNCHANGED <<table, seen, expanded>>
    /\ UNCHANGED <<mergeVars, nameVars, lockVars, convertVars>>

\* `normalized_name == *extra`: the recursive call of `inner` on the group.
CallInner ==
    /\ AtTableEntry
    /\ IsSome(ExtraNameFromStr(table[Top.k].name))
    /\ Unwrap(ExtraNameFromStr(table[Top.k].name)) = CurrentRequirement.extras[Top.j]
    /\ stack' = Append(stack, Frame(Top.k))
    /\ expanded' = Append(expanded, Top.k)
    /\ UNCHANGED <<table, seen, flattened>>
    /\ UNCHANGED <<mergeVars, nameVars, lockVars, convertVars>>

\* An entry of the table under another name.
SkipEntry ==
    /\ AtTableEntry
    /\ IsSome(ExtraNameFromStr(table[Top.k].name))
    /\ Unwrap(ExtraNameFromStr(table[Top.k].name)) # CurrentRequirement.extras[Top.j]
    /\ stack' = SetTop([Top EXCEPT !.k = @ + 1])
    /\ UNCHANGED <<table, seen, expanded, flattened>>
    /\ UNCHANGED <<mergeVars, nameVars, lockVars, convertVars>>

\* The end of `for (name, extra_requirements) in extras`.
EndOfTable ==
    /\ AtRequirement
    /\ Top.k > Len(table)
    /\ stack' = SetTop([Top EXCEPT !.j = @ + 1, !.k = 0])
    /\ UNCHANGED <<table, seen, expanded, flattened>>
    /\ UNCHANGED <<mergeVars, nameVars, lockVars, convertVars>>

\* A recursive call returns `Ok(flattened)`, and its caller extends its own
\* vector with it and goes on to the next entry of the table.
ReturnInner ==
    /\ flattened = FlattenPending
    /\ Len(stack) > 1
    /\ Top.i > Len(RequirementsOf(Top))
    /\ LET caller == stack[Len(stack) - 1] IN
          stack' = [SubSeq(stack, 1, Len(stack) - 1) EXCEPT
                       ![Len(stack) - 1] =
                           [caller EXCEPT !.flattened = @ \o Top.flattened,
                                          !.k = @ + 1]]
    /\ UNCHANGED <<table, seen, expanded, flattened>>
    /\ UNCHANGED <<mergeVars, nameVars, lockVars, convertVars>>

\* The outermost call returns: flatten_extra's result.
ReturnFlattened ==
    /\ flattened = FlattenPending
    /\ Len(stack) = 1
    /\ Top.i > Len(RequirementsOf(Top))
    /\ flattened' = FlattenOk(Top.flattened)
    /\ stack' = <<>>
    /\ UNCHANGED <<table, seen, expanded>>
    /\ UNCHANGED <<mergeVars, nameVars, lockVars, convertVars>>

FlattenNext ==
    \/ PushRequirement
    \/ InsertExtra
    \/ NextRequirement
    \/ InvalidExtraName
    \/ CallInner
    \/ SkipEntry
    \/ EndOfTable
    \/ ReturnInner
    \/ ReturnFlattened

\* flatten_extra on its own.
SpecFlatten == FlattenInit /\ [][FlattenNext]_vars

\* flatten_extra runs to its end: nothing else can stop a sequential call.
FairSpecFlatten == SpecFlatten /\ WF_vars(FlattenNext)

(***************************************************************************)
(* Claims about flatten_extra.                                             *)
(***************************************************************************)
\* The recursive calls of `inner`, in call order: every call but the first.
RecursiveCalls == Tail(expanded)

C6_EachGroupExpandedOnce ==
    \A a, b \in 1..Len(expanded) : expanded[a] = expanded[b] => a = b

(***************************************************************************)
(* name_requirement.  The argument is modelled by what the code reads of   *)
(* it: the URL's text, whether its path has the extension `whl`, whether   *)
(* url.filename() succeeds, what the wheel and source-distribution grammars*)
(* make of the filename, whether the scheme is `file`, whether the URL     *)
(* converts to a path, whether the path exists and what the four metadata  *)
(* files under it hold (None: the file is missing or does not parse).      *)
(***************************************************************************)
Urls == {"https://example.org/pkg", "file:///work/pkg2"}

\* What toml::from_str::<PyProjectToml> returns: project.name and
\* tool.poetry.name, each None when absent.
PyprojectNames ==
    { [project |-> p, poetry |-> q] :
        p \in {None, Some("pep621-name")}, q \in {None, Some("poetry-name")} }

UnnamedRequirements ==
    { u \in [url : Urls, whl : BOOLEAN, filename : BOOLEAN,
             wheel : {None, Some("wheel-name")},
             sdist : {None, Some("sdist-name")},
             file : BOOLEAN, path : BOOLEAN, exists : BOOLEAN,
             pkg_info : {None, Some("pkginfo-name")},
             pyproject : {None} \cup {Some(n) : n \in PyprojectNames},
             setup_cfg : {None, Some("cfg-name"), Some("not a name")},
             setup_py : {None, Some("py-name"), Some("not a name")}] :
        \* the text of the URL decides its scheme
        /\ u.file = (u.url = "file:///work/pkg2")
        \* a path with an extension has a filename; a filename the wheel
        \* grammar accepts ends in `.whl`, one the source-distribution
        \* grammar accepts does not
        /\ u.whl => u.filename
        /\ IsSome(u.wheel) => u.whl
        /\ IsSome(u.sdist) => (u.filename /\ ~u.whl)
        \* only a file URL has a path, only a path exists, and only under an
        \* existing path are there files
        /\ u.path => u.file
        /\ u.exists => u.path
        /\ ~u.exists => /\ u.pkg_info = None
                        /\ u.pyproject = None
                        /\ u.setup_cfg = None
                        /\ u.setup_py = None }

NameInit ==
    /\ unnamedRequirement \in UnnamedRequirements
    /\ strategy = "wheel"
    /\ tried = <<>>
    /\ accesses = <<>>
    /\ named = NamePending
    /\ MergeIdle /\ FlattenIdle /\ LockIdle /\ ConvertIdle

\* `WheelFilename::from_str(&requirement.url.filename()?)?`
WheelName(u) == IF u.filename THEN u.wheel ELSE None

\* `url.filename().ok().and_then(|f| SourceDistFilename::parsed_normalized_filename(&f).ok())`
SdistNameNever(u) == None

SdistName(u) == IF u.filename THEN u.sdist ELSE None

\* `section.get("name")` of setup.cfg's [metadata], through PackageName::from_str.
SetupCfgName(u) ==
    IF IsSome(u.setup_cfg) THEN PackageNameFromStr(Unwrap(u.setup_cfg)) ELSE None

\* The `name=` capture of SETUP_PY_NAME in setup.py, through PackageName::from_str.
SetupPyNameUnchecked(u) == u.setup_py

SetupPyName(u) ==
    IF IsSome(u.setup_py) THEN PackageNameFromStr(Unwrap(u.setup_py)) ELSE None

\* name_requirement returns at once; the variables of the rest stay.
Return(value) ==
    /\ named' = value
    /\ UNCHANGED <<unnamedRequirement, strategy>>
    /\ UNCHANGED <<mergeVars, flattenVars, lockVars, convertVars>>

\* name_requirement goes on to the next strategy.
GoOn(next) ==
    /\ strategy' = next
    /\ UNCHANGED <<unnamedRequirement, named>>
    /\ UNCHANGED <<mergeVars, flattenVars, lockVars, convertVars>>

Trying(s) == named = NamePending /\ strategy = s

\* "If the requirement is a wheel, extract the package name from the wheel
\* filename": with the extension `whl` both outcomes return.
TryWheel ==
    /\ Trying("wheel")
    /\ tried' = Append(tried, "wheel")
    /\ UNCHANGED accesses
    /\ IF unnamedRequirement.whl
       THEN IF IsSome(WheelName(unnamedRequirement))
            THEN Return(NameOk(Unwrap(WheelName(unnamedRequirement))))
            ELSE Return(NameErr("WheelFilename", ""))
       ELSE GoOn("sdist")

\* "If the requirement is a source archive, try to extract the package name
\* from the archive filename."
TrySdist ==
    /\ Trying("sdist")
    /\ tried' = Append(tried, "sdist")
    /\ UNCHANGED accesses
    /\ IF IsSome(SdistName(unnamedRequirement))
       THEN Return(NameOk(Unwrap(SdistName(unnamedRequirement))))
       ELSE GoOn("path")

\* `if Scheme::parse(requirement.url.scheme()) == Some(Scheme::File)`, the
\* conversion to a path and `path.exists()`.
ResolvePath ==
    /\ Trying("path")
    /\ UNCHANGED tried
    /\ IF ~unnamedRequirement.file
       THEN UNCHANGED accesses /\ GoOn("fail")
       ELSE IF ~unnamedRequirement.path
       THEN UNCHANGED accesses
            /\ Return(NameErr("UnableToConvert", unnamedRequirement.url))
       ELSE /\ accesses' = Append(accesses, "exists")
            /\ IF ~unnamedRequirement.exists
               THEN Return(NameErr("NotFound", unnamedRequirement.url))
               ELSE GoOn("PKG-INFO")

\* "Attempt to read a `PKG-INFO` from the directory."
TryPkgInfo ==
    /\ Trying("PKG-INFO")
    /\ tried' = Append(tried, "PKG-INFO")
    /\ accesses' = Append(accesses, "PKG-INFO")
    /\ IF IsSome(unnamedRequirement.pkg_info)
       THEN Return(NameOk(Unwrap(unnamedRequirement.pkg_info)))
       ELSE GoOn("pep621")

\* "Attempt to read a `pyproject.toml` file", and "Read PEP 621 metadata".
TryPyproject ==
    /\ Trying("pep621")
    /\ tried' = Append(tried, "pep621")
    /\ accesses' = Append(accesses, "pyproject.toml")
    /\ IF ~IsSome(unnamedRequirement.pyproject)
       THEN GoOn("setup.cfg")
       ELSE IF IsSome(Unwrap(unnamedRequirement.pyproject).project)
       THEN Return(NameOk(Unwrap(Unwrap(unnamedRequirement.pyproject).project)))
       ELSE GoOn("poetry")

\* "Read Poetry-specific metadata from the `pyproject.toml`."
TryPoetry ==
    /\ Trying("poetry")
    /\ tried' = Append(tried, "poetry")
    /\ UNCHANGED accesses
    /\ IF IsSome(Unwrap(unnamedRequirement.pyproject).poetry)
       THEN Return(NameOk(Unwrap(Unwrap(unnamedRequirement.pyproject).poetry)))
       ELSE GoOn("setup.cfg")

\* "Attempt to read a `setup.cfg` from the directory."
TrySetupCfg ==
    /\ Trying("setup.cfg")
    /\ tried' = Append(tried, "setup.cfg")
    /\ accesses' = Append(accesses, "setup.cfg")
    /\ IF IsSome(SetupCfgName(unnamedRequirement))
       THEN Return(NameOk(Unwrap(SetupCfgName(unnamedRequirement))))
       ELSE GoOn("setup.py")

\* "Attempt to read a `setup.py` from the directory."
TrySetupPy ==
    /\ Trying("setup.py")
    /\ tried' = Append(tried, "setup.py")
    /\ accesses' = Append(accesses, "setup.py")
    /\ IF IsSome(SetupPyName(unnamedRequirement))
       THEN Return(NameOk(Unwrap(SetupPyName(unnamedRequirement))))
       ELSE GoOn("fail")

\* "Unable to infer package name for the unnamed requirement: {requirement}"
GiveUp ==
    /\ Trying("fail")
    /\ UNCHANGED <<tried, accesses>>
    /\ Return(NameErr("UnableToInfer", unnamedRequirement.url))

NameNext ==
    \/ TryWheel
    \/ TrySdist
    \/ ResolvePath
    \/ TryPkgInfo
    \/ TryPyproject
    \/ TryPoetry
    \/ TrySetupCfg
    \/ TrySetupPy
    \/ GiveUp

\* name_requirement on its own.
SpecName == NameInit /\ [][NameNext]_vars

(***************************************************************************)
(* Claims about name_requirement.                                          *)
(***************************************************************************)
\* The strategies, in the order the claims give them.
StrategyOrder ==
    <<"wheel", "sdist", "PKG-INFO", "pep621", "poetry", "setup.cfg", "setup.py">>

OrderOf(s) == CHOOSE k \in 1..Len(StrategyOrder) : StrategyOrder[k] = s

\* What each strategy makes of the requirement, taken on its own from what
\* the URL and the file system hold.
Produces(s, u) ==
    CASE s = "wheel" -> IF u.whl /\ u.filename THEN u.wheel ELSE None
      [] s = "sdist" -> IF u.filename THEN u.sdist ELSE None
      [] s = "PKG-INFO" -> u.pkg_info
      [] s = "pep621" ->
            IF IsSome(u.pyproject) THEN Unwrap(u.pyproject).project ELSE None
      [] s = "poetry" ->
            IF IsSome(u.pyproject) THEN Unwrap(u.pyproject).poetry ELSE None
      [] s = "setup.cfg" ->
            IF u.setup_cfg = Some("cfg-name") THEN u.setup_cfg ELSE None
      [] s = "setup.py" ->
            IF u.setup_py = Some("py-name") THEN u.setup_py ELSE None

\* C7: the strategies are tried in the fixed order; a returned name is the
\* one the first strategy of that order that produces a name produces, that
\* strategy is the last one tried and none before it produced a name; and a
\* URL whose filename parses as a wheel or as a source distribution is named
\* without any file system access.
C7_FirstStrategyWins ==
    /\ \A a, b \in 1..Len(tried) : a < b => OrderOf(tried[a]) < OrderOf(tried[b])
    /\ named.tag = "Ok" =>
          \E k \in 1..Len(StrategyOrder) :
              /\ Produces(StrategyOrder[k], unnamedRequirement) = Some(named.name)
              /\ \A m \in 1..(k - 1) :
                    Produces(StrategyOrder[m], unnamedRequirement) = None
              /\ tried[Len(tried)] = StrategyOrder[k]
    /\ (/\ named # NamePending
        /\ \/ IsSome(Produces("wheel", unnamedRequirement))
           \/ IsSome(Produces("sdist", unnamedRequirement))) =>
          /\ named.tag = "Ok"
          /\ accesses = <<>>

\* C7 witness: a file URL whose path does not exist has been named from its
\* source-distribution filename, without touching the file system.
C7_Witness ==
    /\ named = NameOk("sdist-name")
    /\ unnamedRequirement.file
    /\ unnamedRequirement.path
    /\ ~unnamedRequirement.exists
    /\ accesses = <<>>

\* No strategy produces a name for the requirement, and its local path, if
\* it is a file URL, exists.
NoStrategyProduces(u) ==
    /\ \A k \in 1..Len(StrategyOrder) : Produces(StrategyOrder[k], u) = None
    /\ u.file => (u.path /\ u.exists)

Entry(name, form, editable) == [name |-> name, form |-> form, editable |-> editable]

\* The version each package is pinned to in the model's lock outputs.
PinnedVersion(name) == IF name = "foo" THEN "1.0" ELSE "2.0"

LockEntries ==
    { Entry(name, form, editable) :
        name \in {"foo", "bar"}, form \in {"pinned", "loose"}, editable \in BOOLEAN }
      \cup { Entry("", "unnamed", editable) : editable \in BOOLEAN }

\* commands::Upgrade
UpgradeNone == [kind |-> "None", packages |-> {}]

UpgradeAll == [kind |-> "All", packages |-> {}]

UpgradePackages(packages) == [kind |-> "Packages", packages |-> packages]

Upgrades ==
    {UpgradeNone, UpgradeAll}
      \cup {UpgradePackages(S) : S \in {{"foo"}, {"bar"}, {"foo", "bar"}, {"baz"}}}

\* Upgrade::is_all
IsAll(u) == u.kind = "All"

LockFile(exists, cwd, readable, contents) ==
    [exists |-> exists, cwd |-> cwd, readable |-> readable, contents |-> contents]

LockInit ==
    /\ \/ output_file = None
       \/ output_file = Some(LockFile(FALSE, TRUE, FALSE, <<>>))
       \/ output_file = Some(LockFile(TRUE, FALSE, TRUE, <<>>))
       \/ output_file = Some(LockFile(TRUE, TRUE, FALSE, <<>>))
       \/ \E contents \in SeqsUpTo(LockEntries, MaxLockEntries) :
             output_file = Some(LockFile(TRUE, TRUE, TRUE, contents))
    /\ upgrade \in Upgrades
    /\ lockStep = "start"
    /\ entries = <<>>
    /\ io = <<>>
    /\ preferences = LockPending
    /\ MergeIdle /\ FlattenIdle /\ NameIdle /\ ConvertIdle

\* `output_file.filter(|_| !upgrade.is_all()).filter(|output_file| output_file.exists())`:
\* whether the chain yields the path, and the file system accesses it makes.
FilterOutputFileExistsFirst(file, u) ==
    IF ~IsSome(file) THEN [some |-> FALSE, io |-> <<>>]
    ELSE [some |-> Unwrap(file).exists /\ ~IsAll(u), io |-> <<"exists">>]

FilterOutputFile(file, u) ==
    IF ~IsSome(file) \/ IsAll(u) THEN [some |-> FALSE, io |-> <<>>]
    ELSE [some |-> Unwrap(file).exists, io |-> <<"exists">>]

\* Preference::from_entry: a preference for a pin, an error for anything else.
IsPin(entry) == entry.form = "pinned"

Preference(entry) == [name |-> entry.name, version |-> PinnedVersion(entry.name)]

\* `.filter(|entry| !entry.editable)`
NotEditableKeepsAll(contents) == contents

NotEditable(contents) == SelectSeq(contents, LAMBDA entry : ~entry.editable)

\* The `match upgrade` at the end.
ApplyUpgrade(u, prefs) ==
    CASE u.kind = "None" -> prefs
      [] u.kind = "All" -> <<>>
      [] OTHER -> SelectSeq(prefs, LAMBDA preference : preference.name \notin u.packages)

\* The `let Some(output_file) = ... else { return Ok(Vec::new()) }`.
CheckOutputFile ==
    /\ preferences = LockPending
    /\ lockStep = "start"
    /\ LET chain == FilterOutputFile(output_file, upgrade) IN
          /\ io' = io \o chain.io
          /\ IF chain.some
             THEN lockStep' = "parse" /\ UNCHANGED preferences
             ELSE preferences' = LockOk(<<>>) /\ UNCHANGED lockStep
    /\ UNCHANGED <<output_file, upgrade, entries>>
    /\ UNCHANGED <<mergeVars, flattenVars, nameVars, convertVars>>

\* `RequirementsTxt::parse(output_file, std::env::current_dir()?,
\* Connectivity::Offline).await?`
ParseLockfile ==
    /\ preferences = LockPending
    /\ lockStep = "parse"
    /\ LET file == Unwrap(output_file) IN
          CASE ~file.cwd ->
                 /\ io' = Append(io, "current_dir")
                 /\ preferences' = LockErr("Io")
                 /\ UNCHANGED <<entries, lockStep>>
            [] file.cwd /\ ~file.readable ->
                 /\ io' = io \o <<"current_dir", "read">>
                 /\ preferences' = LockErr("RequirementsTxt")
                 /\ UNCHANGED <<entries, lockStep>>
            [] OTHER ->
                 /\ io' = io \o <<"current_dir", "read">>
                 /\ entries' = file.contents
                 /\ lockStep' = "convert"
                 /\ UNCHANGED preferences
    /\ UNCHANGED <<output_file, upgrade>>
    /\ UNCHANGED <<mergeVars, flattenVars, nameVars, convertVars>>

\* The filter, map and collect into `preferences`.
ConvertEntries ==
    /\ preferences = LockPending
    /\ lockStep = "convert"
    /\ LET kept == NotEditable(entries) IN
          IF \A i \in 1..Len(kept) : IsPin(kept[i])
          THEN /\ entries' = [i \in 1..Len(kept) |-> Preference(kept[i])]
               /\ lockStep' = "upgrade"
               /\ UNCHANGED preferences
          ELSE /\ preferences' = LockErr("Preference")
               /\ UNCHANGED <<entries, lockStep>>
    /\ UNCHANGED <<output_file, upgrade, io>>
    /\ UNCHANGED <<mergeVars, flattenVars, nameVars, convertVars>>

\* "Apply the upgrade strategy to the requirements."
ReturnPreferences ==
    /\ preferences = LockPending
    /\ lockStep = "upgrade"
    /\ preferences' = LockOk(ApplyUpgrade(upgrade, entries))
    /\ UNCHANGED <<output_file, upgrade, lockStep, entries, io>>
    /\ UNCHANGED <<mergeVars, flattenVars, nameVars, convertVars>>

LockNext ==
    \/ CheckOutputFile
    \/ ParseLockfile
    \/ ConvertEntries
    \/ ReturnPreferences

\* read_lockfile on its own.
SpecLock == LockInit /\ [][LockNext]_vars

(***************************************************************************)
(* Claims about read_lockfile.                                             *)
(***************************************************************************)
Returned == preferences # LockPending

ShortCircuits ==
    \/ output_file = None
    \/ ~Unwrap(output_file).exists
    \/ IsAll(upgrade)

\* C9: when no output path is configured, the path does not exist, or the
\* upgrade strategy is Upgrade::All, read_lockfile returns the empty list and
\* never reads the lock output; with Upgrade::All it makes no file system
\* access at any point, not even the existence check, whatever the path holds.
C9_ShortCircuitWithoutReading ==
    /\ (Returned /\ ShortCircuits) =>
          /\ preferences = LockOk(<<>>)
          /\ "read" \notin Range(io)
    /\ IsAll(upgrade) => io = <<>>
    /\ (output_file = None) => io = <<>>

\* Upgrade::All returned the empty list, with no access made, for an output
\* file that exists and holds entries.
C9_Witness ==
    /\ IsAll(upgrade)
    /\ IsSome(output_file)
    /\ Unwrap(output_file).exists
    /\ Unwrap(output_file).readable
    /\ Len(Unwrap(output_file).contents) > 0
    /\ preferences = LockOk(<<>>)
    /\ io = <<>>

\* The entries of the lock output that the result keeps: the non-editable ones
\* whose package the upgrade strategy does not discard.
Kept(entry) ==
    /\ ~entry.editable
    /\ upgrade.kind = "Packages" => entry.name \notin upgrade.packages

RECURSIVE PreferencesOfKept(_)
PreferencesOfKept(contents) ==
    IF contents = <<>> THEN <<>>
    ELSE (IF Kept(Head(contents))
          THEN <<[name |-> Head(contents).name,
                  version |-> PinnedVersion(Head(contents).name)]>>
          ELSE <<>>) \o PreferencesOfKept(Tail(contents))

AllNonEditablePinned ==
    \A i \in 1..Len(Unwrap(output_file).contents) :
        LET entry == Unwrap(output_file).contents[i] IN
            ~entry.editable => IsPin(entry)

\* C10: when the lock output was read and each of its non-editable entries is
\* a pin, the result is the preferences of the non-editable entries, in the
\* order of the lock output, all of them with Upgrade::None and without those
\* named in S with Upgrade::Packages(S); no editable entry contributes.
C10_PreferencesOfNonEditableEntries ==
    (Returned /\ "read" \in Range(io) /\ Unwrap(output_file).readable /\ AllNonEditablePinned) =>
        /\ preferences = LockOk(PreferencesOfKept(Unwrap(output_file).contents))
        /\ upgrade.kind = "None" =>
              Len(preferences.preferences) =
                  Len(SelectSeq(Unwrap(output_file).contents, LAMBDA entry : ~entry.editable))

\* Upgrade::Packages({"foo"}) against a lock output that pins foo and bar and
\* also holds an editable entry returned the preference for bar alone.
C10_Witness ==
    /\ upgrade = UpgradePackages({"foo"})
    /\ IsSome(output_file)
    /\ \E i, j, k \in 1..Len(Unwrap(output_file).contents) :
          LET contents == Unwrap(output_file).contents IN
             /\ contents[i] = Entry("foo", "pinned", FALSE)
             /\ contents[j] = Entry("bar", "pinned", FALSE)
             /\ contents[k].editable
    /\ "read" \in Range(io)
    /\ preferences = LockOk(<<[name |-> "bar", version |-> "2.0"]>>)

(***************************************************************************)
(* Claims about from_source, stated over the sources from_sources has      *)
(* read: the first `processed` sources were each read with success.        *)
(***************************************************************************)
\* The k-th source is a pyproject.toml that parses and has no project table,
\* hence no project name.
ManifestWithoutProject(k) ==
    LET source == SourceCatalog[AllSources[k]] IN
        /\ source.kind = "PyprojectToml"
        /\ IsSome(source.parsed)
        /\ ~IsSome(Unwrap(source.parsed).project)

\* C11 (as stated): with an extras selector other than None, reading a
\* project manifest that declares no project name never succeeds: no such
\* manifest is among the sources that were read with success.
C11_MissingProjectNameFails ==
    \A k \in 1..processed :
        (extras.kind # "None" /\ ManifestWithoutProject(k)) => ReadOf(k).tag = "Err"

(***************************************************************************)
(* Claims about what from_sources routes where.                            *)
(***************************************************************************)
RECURSIVE Concat(_)
\* The concatenation of a sequence of sequences.
Concat(ss) == IF ss = <<>> THEN <<>> ELSE Head(ss) \o Concat(Tail(ss))

\* The positions, in processing order, of the sources of one role.
PositionsOf(role) ==
    CASE role = "requirements" -> [k \in 1..Len(requirements) |-> k]
      [] role = "constraints" -> [k \in 1..Len(constraints) |-> Len(requirements) + k]
      [] OTHER -> [k \in 1..Len(overrides) |-> Len(requirements) + Len(constraints) + k]

\* Everything the k-th source lists, as named requirements: its requirements,
\* then its constraints, then its overrides.
EverythingOf(k) ==
    LET source == ReadOf(k).spec IN
        [i \in 1..Len(source.requirements) |-> source.requirements[i].requirement]
            \o source.constraints \o source.overrides

\* What the sources of a role contribute to their own role's list.
CoercedFrom(role) ==
    Concat([n \in 1..Len(PositionsOf(role)) |-> EverythingOf(PositionsOf(role)[n])])

\* C12: the aggregate of a successful merge holds, in source order, the
\* requirements of the requirements-role sources as its requirements; their
\* constraints followed by everything the constraints-role sources list as
\* its constraints; their overrides followed by everything the overrides-role
\* sources list as its overrides.  And the lists are read in that order: a
\* constraints-role source is read only after every requirements-role
\* source, an overrides-role source only after every constraints-role one.
C12_EntriesRoutedByRole ==
    /\ result.tag = "Ok" =>
          /\ result.spec.requirements =
                Concat([k \in 1..Len(requirements) |-> ReadOf(k).spec.requirements])
          /\ result.spec.constraints =
                Concat([k \in 1..Len(requirements) |-> ReadOf(k).spec.constraints])
                    \o CoercedFrom("constraints")
          /\ result.spec.overrides =
                Concat([k \in 1..Len(requirements) |-> ReadOf(k).spec.overrides])
                    \o CoercedFrom("overrides")
    /\ result.tag = "Err" =>
          \A k \in 1..processed : ReadOf(k).tag = "Ok" /\ ~YieldsUnnamed(k)

\* C12 witness: a merge has succeeded whose constraints come from a
\* requirements-role source's constraints and from the named requirement and
\* the constraint of a constraints-role source.
C12_Witness ==
    /\ result.tag = "Ok"
    /\ Len(requirements) = 1
    /\ Len(constraints) = 1
    /\ Len(ReadOf(1).spec.constraints) = 1
    /\ Len(ReadOf(2).spec.requirements) = 1
    /\ Len(ReadOf(2).spec.constraints) = 1
    /\ Len(result.spec.constraints) = 3
    /\ Len(result.spec.requirements) = 1

\* C13: on every successful merge the aggregate's no-index flag is set exactly
\* when some source set it, and its extra index URLs and its find-links
\* locations are those of the sources, concatenated in processing order over
\* all three roles, duplicates included.
C13_IndexOptionsAccumulate ==
    result.tag = "Ok" =>
        /\ result.spec.no_index = (\E k \in Positions : ReadOf(k).spec.no_index)
        /\ result.spec.extra_index_urls =
              Concat([k \in 1..Len(AllSources) |-> ReadOf(k).spec.extra_index_urls])
        /\ result.spec.find_links =
              Concat([k \in 1..Len(AllSources) |-> ReadOf(k).spec.find_links])

\* C13 witness: a requirements-role source and a source of another role, one
\* of which sets no-index, with an extra index URL in common, were merged.
C13_Witness ==
    /\ result.tag = "Ok"
    /\ Len(requirements) = 1
    /\ Len(AllSources) = 2
    /\ ReadOf(1).spec.no_index # ReadOf(2).spec.no_index
    /\ Range(ReadOf(1).spec.extra_index_urls) \cap Range(ReadOf(2).spec.extra_index_urls) # {}
    /\ Len(result.spec.extra_index_urls) = 3
    /\ Len(result.spec.find_links) = 2
    /\ result.spec.no_index

(***************************************************************************)
(* Claims about the output of flatten_extra.                               *)
(***************************************************************************)
\* The requirement list flatten_extra was called with.
InputRequirements == table[expanded[1]].requirements

RECURSIVE IsSubsequence(_, _)
\* a can be had from b by leaving elements out.
IsSubsequence(a, b) ==
    IF a = <<>> THEN TRUE
    ELSE IF b = <<>> THEN FALSE
    ELSE IF Head(a) = Head(b) THEN IsSubsequence(Tail(a), Tail(b))
    ELSE IsSubsequence(a, Tail(b))

\* The requirements of a list that do not name the owning project.
NonReferencing(reqs) == SelectSeq(reqs, LAMBDA r : r.name # FlattenProject)

\* C14: the output of flatten_extra is its input list, in order, with every
\* requirement on another package kept and every requirement on the owning
\* project replaced, where it stands, by the flattened lists of the groups
\* its extras name and `seen` does not hold yet.  So the requirements of the
\* input on other packages appear in the output unchanged and in their
\* order, nothing in the output names the owning project, and everything in
\* it is a requirement of a group that was expanded.
C14_OutputInlinesGroupsInOrder ==
    flattened.tag = "Ok" =>
        /\ flattened.requirements =
              FlattenExtra(FlattenProject, InputRequirements, table).flattened
        /\ IsSubsequence(NonReferencing(InputRequirements), flattened.requirements)
        /\ \A r \in Range(flattened.requirements) :
              /\ r.name # FlattenProject
              /\ \E g \in Range(expanded) : r \in Range(table[g].requirements)
        /\ Len(flattened.requirements) =
              Len(Concat([n \in 1..Len(expanded) |->
                             NonReferencing(table[expanded[n]].requirements)]))

\* C14 witness: a list that refers to another group before a requirement of
\* its own was flattened with the group's requirement in front.
C14_Witness ==
    /\ flattened.tag = "Ok"
    /\ Len(InputRequirements) = 2
    /\ InputRequirements[1].name = FlattenProject
    /\ InputRequirements[2] = Requirement("black", <<>>)
    /\ flattened.requirements = <<Requirement("pep517", <<>>), Requirement("black", <<>>)>>

(***************************************************************************)
(* NamedRequirements::from_spec.  The requirements of the specification    *)
(* are mapped one by one, an unnamed one through name_requirement, and     *)
(* collected into a Result: the first error ends the conversion.           *)
(***************************************************************************)
\* name_requirement as a function of its argument: the whole cascade.
NameRequirement(u) ==
    IF u.whl
    THEN IF IsSome(WheelName(u))
         THEN NameOk(Unwrap(WheelName(u)))
         ELSE NameErr("WheelFilename", "")
    ELSE IF IsSome(SdistName(u)) THEN NameOk(Unwrap(SdistName(u)))
    ELSE IF ~u.file THEN NameErr("UnableToInfer", u.url)
    ELSE IF ~u.path THEN NameErr("UnableToConvert", u.url)
    ELSE IF ~u.exists THEN NameErr("NotFound", u.url)
    ELSE IF IsSome(u.pkg_info) THEN NameOk(Unwrap(u.pkg_info))
    ELSE IF IsSome(u.pyproject) /\ IsSome(Unwrap(u.pyproject).project)
    THEN NameOk(Unwrap(Unwrap(u.pyproject).project))
    ELSE IF IsSome(u.pyproject) /\ IsSome(Unwrap(u.pyproject).poetry)
    THEN NameOk(Unwrap(Unwrap(u.pyproject).poetry))
    ELSE IF IsSome(SetupCfgName(u)) THEN NameOk(Unwrap(SetupCfgName(u)))
    ELSE IF IsSome(SetupPyName(u)) THEN NameOk(Unwrap(SetupPyName(u)))
    ELSE NameErr("UnableToInfer", u.url)

\* The Requirement name_requirement builds: the name found, and the URL of
\* the unnamed requirement as its `version_or_url`.
UrlRequirement(name, url) == [name |-> name, extras |-> <<>>, url |-> url]

\* An unnamed requirement at a remote URL, with what the URL holds.
RemoteRequirement(whl, wheel, sdist) ==
    [url |-> "https://example.org/pkg", whl |-> whl, filename |-> TRUE,
     wheel |-> wheel, sdist |-> sdist, file |-> FALSE, path |-> FALSE,
     exists |-> FALSE, pkg_info |-> None, pyproject |-> None,
     setup_cfg |-> None, setup_py |-> None]

\* An unnamed requirement at a local directory, with what the directory holds.
LocalRequirement(exists, setup_py) ==
    [url |-> "file:///work/pkg2", whl |-> FALSE, filename |-> TRUE,
     wheel |-> None, sdist |-> None, file |-> TRUE, path |-> TRUE,
     exists |-> exists, pkg_info |-> None, pyproject |-> None,
     setup_cfg |-> None, setup_py |-> setup_py]

\* The entries a specification's requirement list is drawn from: two named
\* requirements and unnamed ones that name_requirement names (by wheel
\* filename, archive filename, setup.py) or fails on in each of its ways.
SpecRequirements ==
    { Pep508(Requirement("flask", <<>>)),
      Pep508(Requirement("anyio", <<"trio">>)),
      Unnamed(RemoteRequirement(TRUE, Some("wheel-name"), None)),
      Unnamed(RemoteRequirement(TRUE, None, None)),
      Unnamed(RemoteRequirement(FALSE, None, Some("sdist-name"))),
      Unnamed(RemoteRequirement(FALSE, None, None)),
      Unnamed(LocalRequirement(TRUE, Some("py-name"))),
      Unnamed(LocalRequirement(FALSE, None)) }

\* The rest of a specification: nothing set, or everything set.
SpecRests ==
    { DefaultSpec,
      [project |-> Some("p1"), requirements |-> <<>>,
       constraints |-> <<Requirement("idna", <<>>)>>,
       overrides |-> <<Requirement("sniffio", <<>>)>>,
       editables |-> <<"./editable1">>, extras |-> {"dev"},
       index_url |-> Some("https://a.example/simple"),
       extra_index_urls |-> <<"https://x1.example/simple">>,
       no_index |-> TRUE, find_links |-> <<"./links1">>] }

ConvertInit ==
    /\ \E rest \in SpecRests : \E reqs \in SeqsUpTo(SpecRequirements, MaxSpecRequirements) :
          specification = [rest EXCEPT !.requirements = reqs]
    /\ converted = 0
    /\ collected = <<>>
    /\ namedRequirements = ConvertPending
    /\ MergeIdle /\ FlattenIdle /\ NameIdle /\ LockIdle

\* The closure of the `map`: [ok, requirement, err, cites].
IntoRequirementKeepsUnnamed(entry) ==
    [ok |-> TRUE, requirement |-> entry.requirement, err |-> "", cites |-> ""]

IntoRequirement(entry) ==
    IF entry.kind = "Pep508"
    THEN [ok |-> TRUE, requirement |-> entry.requirement, err |-> "", cites |-> ""]
    ELSE LET name == NameRequirement(entry.url) IN
         IF name.tag = "Ok"
         THEN [ok |-> TRUE, requirement |-> UrlRequirement(name.name, entry.url.url),
               err |-> "", cites |-> ""]
         ELSE [ok |-> FALSE, requirement |-> entry.requirement,
               err |-> name.err, cites |-> name.cites]

\* One requirement goes through the `map` into the collection; an Err ends
\* the `collect` and `?` returns it.
ConvertRequirement ==
    /\ namedRequirements = ConvertPending
    /\ converted < Len(specification.requirements)
    /\ LET into == IntoRequirement(specification.requirements[converted + 1]) IN
          IF into.ok
          THEN /\ collected' = Append(collected, into.requirement)
               /\ converted' = converted + 1
               /\ UNCHANGED namedRequirements
          ELSE /\ namedRequirements' = ConvertErr(into.err, into.cites)
               /\ UNCHANGED <<collected, converted>>
    /\ UNCHANGED specification
    /\ UNCHANGED <<mergeVars, flattenVars, nameVars, lockVars>>

\* `Ok(Self { project: spec.project, requirements: ..., ... })`
ReturnNamedRequirements ==
    /\ namedRequirements = ConvertPending
    /\ converted = Len(specification.requirements)
    /\ namedRequirements' = ConvertOk(NamedRequirements(specification, collected))
    /\ UNCHANGED <<specification, converted, collected>>
    /\ UNCHANGED <<mergeVars, flattenVars, nameVars, lockVars>>

ConvertNext ==
    \/ ConvertRequirement
    \/ ReturnNamedRequirements

\* from_spec on its own.
SpecConvert == ConvertInit /\ [][ConvertNext]_vars

(***************************************************************************)
(* Claims about from_spec.                                                 *)
(***************************************************************************)
\* name_requirement finds no name for the entry.
CannotBeNamed(entry) ==
    entry.kind = "Unnamed" /\ NameRequirement(entry.url).tag = "Err"

\* C15: from_spec fails exactly when some unnamed requirement cannot be
\* named, with the one error of the first such requirement and without a
\* NamedRequirements; otherwise it returns a NamedRequirements whose
\* requirements are those of the specification, as many and in the same
\* order, a named one as it was and an unnamed one under the name found and
\* with its URL, and whose other fields are those of the specification.
C15_FromSpecAllOrNothing ==
    LET reqs == specification.requirements IN
    /\ namedRequirements # ConvertPending =>
          (namedRequirements.tag = "Err" <=> \E i \in 1..Len(reqs) : CannotBeNamed(reqs[i]))
    /\ namedRequirements.tag = "Err" =>
          /\ namedRequirements.value = <<>>
          /\ CannotBeNamed(reqs[converted + 1])
          /\ \A i \in 1..converted : ~CannotBeNamed(reqs[i])
          /\ namedRequirements.err = NameRequirement(reqs[converted + 1].url).err
    /\ namedRequirements.tag = "Ok" =>
          LET value == namedRequirements.value[1] IN
          /\ Len(value.requirements) = Len(reqs)
          /\ \A i \in 1..Len(reqs) :
                IF reqs[i].kind = "Pep508"
                THEN value.requirements[i] = reqs[i].requirement
                ELSE /\ value.requirements[i].name = NameRequirement(reqs[i].url).name
                     /\ value.requirements[i].name # ""
                     /\ value.requirements[i].url = reqs[i].url.url
          /\ value.project = specification.project
          /\ value.constraints = specification.constraints
          /\ value.overrides = specification.overrides
          /\ value.editables = specification.editables
          /\ value.index_url = specification.index_url
          /\ value.extra_index_urls = specification.extra_index_urls
          /\ value.no_index = specification.no_index
          /\ value.find_links = specification.find_links

\* C15 witness: a specification with a project, constraints and index
\* options and with a named requirement between two unnamed ones was
\* converted.
C15_Witness ==
    /\ namedRequirements.tag = "Ok"
    /\ IsSome(specification.project)
    /\ Len(specification.requirements) = 3
    /\ specification.requirements[1].kind = "Unnamed"
    /\ specification.requirements[2].kind = "Pep508"
    /\ specification.requirements[3].kind = "Unnamed"
    /\ namedRequirements.value[1].requirements[1].name = "wheel-name"
    /\ namedRequirements.value[1].requirements[3].name = "py-name"

(***************************************************************************)
(* Claims about what a constraints- or overrides-role source leaves alone. *)
(***************************************************************************)
\* The step reads the source at position processed + 1 with success.
ReadsSourceOfRole(role) ==
    /\ processed < Len(AllSources)
    /\ RoleOf(processed + 1) = role
    /\ processed' = processed + 1

\* The step leaves the named fields of `spec` as they are.
Keeps(fields) == \A f \in fields : spec'[f] = spec[f]

\* C16: reading a constraints-role source changes, of the aggregate, only its
\* constraints and index options, and reading an overrides-role source only
\* its overrides and index options: project name, requirements, editables
\* and used extras stay as they are, so those of a returned aggregate come
\* from the requirements-role sources alone.
C16_OtherRolesLeaveTheRestAlone ==
    /\ [][/\ ReadsSourceOfRole("constraints") =>
                Keeps({"project", "requirements", "editables", "extras", "overrides"})
          /\ ReadsSourceOfRole("overrides") =>
                Keeps({"project", "requirements", "editables", "extras", "constraints"})]_vars
    /\ [](result.tag = "Ok" =>
            /\ result.spec.editables =
                  Concat([k \in 1..Len(requirements) |-> ReadOf(k).spec.editables])
            /\ result.spec.extras =
                  UNION {ReadOf(k).spec.extras : k \in 1..Len(requirements)}
            /\ (\A k \in 1..Len(requirements) : ~IsSome(ReadOf(k).spec.project)) =>
                  result.spec.project = None)

\* C16 witness: a constraints-role requirements.txt with an editable entry
\* and an overrides-role pyproject.toml with a project name and a used extra
\* were merged, and none of the three reached the aggregate.
C16_Witness ==
    /\ result.tag = "Ok"
    /\ Len(requirements) = 0
    /\ Len(constraints) = 1
    /\ Len(overrides) = 1
    /\ ReadOf(1).spec.editables # <<>>
    /\ IsSome(ReadOf(2).spec.project)
    /\ ReadOf(2).spec.extras # {}
    /\ result.spec.project = None
    /\ result.spec.editables = <<>>
    /\ result.spec.extras = {}
    /\ result.spec.requirements = <<>>

====
